---- MODULE Spec2Model ----
(***************************************************************************)
(* Model of the CYD board facade (cydr.py): the touch event store written  *)
(* by the interrupt handler and consumed by touches(), the double-tap      *)
(* classifier, and the peripheral lifecycle (RGB, speaker, storage,        *)
(* backlight, ordered shutdown).                                           *)
(***************************************************************************)
EXTENDS Integers, Sequences, FiniteSets, TLC

\* ------------------------------------------------------------------------
\* Bounds
\* ------------------------------------------------------------------------
\* Panel extent as seen by the touch handler (display.width / display.height
\* of the external display driver), kept small.
Width == 2
Height == 2
\* double_tap samples are drawn from (0..MaxTap) x (0..MaxTap) plus the two
\* points of the documented scenario; margins from 0..MaxMargin plus the
\* default margin.
MaxTap == 1
MaxMargin == 0
\* Number of double_tap calls recorded in the call log.
MaxTaps == 3
\* Number of shutdown() calls the caller makes.
MaxShutdowns == 2
\* _remap arguments are drawn from 0..MaxRemap.
MaxRemap == 2
\* Length up to which a run of mount_sd() calls without a card is counted.
MaxAbsentRun == 2

\* ------------------------------------------------------------------------
\* Program constants
\* ------------------------------------------------------------------------
DefaultErrorMargin == 5
MaxDuty == 1023
MaxIntensity == 255
\* rgb(self, color) takes one argument besides self; shutdown() passes three.
RgbParams == 1
ShutdownRgbArgs == 3

NoSample == <<>>
Sentinel == <<0, 0>>
NoTap == <<-1, -1>>

\* ------------------------------------------------------------------------
\* Construction (__init__, lines 146-186)
\* ------------------------------------------------------------------------
\* Every Pin(n) / ADC(n) the constructor creates, with the subsystem the
\* object is handed to.
PinClaims ==
    { <<14, "display">>, <<13, "display">>,                 \* line 147
      <<2, "display">>, <<15, "display">>, <<0, "display">>, \* line 148
      <<21, "backlight">>,                                   \* line 153
      <<25, "touch">>, <<32, "touch">>, <<39, "touch">>,     \* line 158
      <<33, "touch">>, <<36, "touch">>,                      \* line 159
      <<0, "button">>,                                       \* line 162
      <<34, "ldr">>,                                         \* line 165
      <<4, "rgb">>, <<16, "rgb">>, <<17, "rgb">>,            \* lines 168-176
      <<26, "speaker">> }                                    \* line 180

\* The serial buses the constructor creates: SPI(1) goes to Display,
\* the SoftSPI to Touch.
BusClaims == { <<"SPI1", "display">>, <<"SoftSPI", "touch">> }

Owners(claims) ==
    [k \in {c[1] : c \in claims} |-> {c[2] : c \in {d \in claims : d[1] = k}}]

ConstructedPins == Owners(PinClaims)
ConstructedBuses == Owners(BusClaims)

\* Observation record of the storage call that ran last: the flags when it
\* began, the low-level calls it made and their outcome, whether an
\* exception left it, and the length of the run of mount_sd() calls without
\* a card that it ends.
NoCall ==
    [op |-> "none", ready |-> FALSE, mounted |-> FALSE, probed |-> FALSE,
     probeOk |-> FALSE, tried |-> FALSE, lowOk |-> FALSE, raised |-> FALSE,
     absentRun |-> 0]

VARIABLES
    \* ---- program state -------------------------------------------------
    _x, _y,            \* touch event store (self._x, self._y)
    last_tap,          \* DoubleTapState (self.last_tap)
    pc,                \* position of the main thread
    loc_x, loc_y,      \* locals x, y of touches()
    ret,               \* value returned by the last completed touches()
    \* ---- observation of the touch pipeline -----------------------------
    pre,               \* store when the current/last touches() call began
    atReadY,           \* store when that call read self._y (line 213)
    irqInCall,         \* the handler ran while that call was executing
    unread,            \* newest handler pair not yet returned in full
    fresh,             \* newest handler pair since the last touches() return
    newestAtCall,      \* value of fresh when the current/last call began
    lastIrq,           \* pair written by the most recent interrupt
    raw,               \* raw (x, y) passed to the most recent interrupt
    ret_prev, pre_prev,\* ret and pre of the call before the last one
    quiet2,            \* the last call began with no interrupt since the
                       \* call before it began
    \* ---- observation of the double-tap classifier ----------------------
    taps,              \* log of double_tap calls since construction
    \* ---- construction ---------------------------------------------------
    pins,              \* pin number -> subsystems that configured the pin
    buses,             \* serial bus -> subsystems that claimed the bus
    \* ---- board peripherals ---------------------------------------------
    rgb_pmw,           \* self._rgb_pmw: FALSE binary mode, TRUE intensity mode
    RGBr, RGBg, RGBb,  \* pin value (binary mode) or PWM duty (intensity mode)
    tft_bl,            \* backlight pin value
    speaker_gain,      \* configured default gain
    speaker_freq,      \* frequency programmed into speaker_pwm
    speaker_duty,      \* duty programmed into speaker_pwm
    speaker_live,      \* speaker_pwm not yet released by deinit()
    tone_arg,          \* gain argument of the play_tone in progress, else 0
    _sd_ready, _sd_mounted,
    fs_mounted,        \* the last low-level mount/unmount that succeeded
                       \* was a mount
    display,           \* "ready", "notice" (shutdown notice drawn), "cleaned"
    shut,              \* "no", "running", "done" (returned), "raised"
    \* ---- observation of shutdown() -------------------------------------
    ops,               \* teardown steps completed by the last shutdown()
    failed,            \* steps of the current/last shutdown() that raised
    calls,             \* number of shutdown() calls started
    \* ---- observation of single calls -----------------------------------
    color,             \* argument of the last observed rgb() call
    sd_last,           \* the last observed mount_sd() / unmount_sd() call
    remap_in,          \* arguments of the last observed _remap() call
    remap_out          \* its result

touchData == <<_x, _y, loc_x, loc_y, ret, pre, atReadY, irqInCall, unread,
               fresh, newestAtCall, lastIrq, raw, ret_prev, pre_prev,
               quiet2>>
touchVars == <<pc, touchData>>

tapVars == <<last_tap, taps>>

rgbVars == <<RGBr, RGBg, RGBb>>
speakerVars == <<speaker_freq, speaker_duty, speaker_live, tone_arg>>
sdVars == <<_sd_ready, _sd_mounted, fs_mounted>>
configVars == <<rgb_pmw, speaker_gain, pins, buses>>
shutVars == <<display, shut, ops, failed, calls>>
boardVars == <<configVars, rgbVars, tft_bl, speakerVars, sdVars, shutVars>>

callVars == <<color, sd_last, remap_in, remap_out>>

vars == <<touchVars, tapVars, boardVars, callVars>>

\* ------------------------------------------------------------------------
\* Touch event store
\* ------------------------------------------------------------------------
\* Orientation correction of _touch_handler: x is mirrored, y is kept.
\* Variant that mirrors against the width instead of the last column.
Correct_wide(x, y) == <<Width - x, y>>

Correct(x, y) == <<(Width - 1) - x, y>>

\* _touch_handler(x, y): runs to completion, preempting the main thread
\* between any two of its statements.
TouchHandler ==
    \E x \in 0..(Width - 1), y \in 0..(Height - 1) :
        LET s == Correct(x, y) IN
        /\ _x' = s[1]
        /\ _y' = s[2]
        /\ irqInCall' = (irqInCall \/ pc # "idle")
        /\ unread' = s
        /\ fresh' = s
        /\ lastIrq' = s
        /\ raw' = <<x, y>>
        /\ quiet2' = FALSE
        /\ UNCHANGED <<pc, loc_x, loc_y, ret, pre, atReadY, newestAtCall,
                       ret_prev, pre_prev, tapVars, boardVars, callVars>>

\* touches(), line 212: x = self._x
Touches_L212 ==
    /\ pc = "idle"
    /\ loc_x' = _x
    /\ pc' = "L213"
    /\ pre' = <<_x, _y>>
    /\ pre_prev' = pre
    /\ ret_prev' = ret
    /\ quiet2' = (~irqInCall /\ fresh = NoSample)
    /\ irqInCall' = FALSE
    /\ newestAtCall' = fresh
    /\ UNCHANGED <<_x, _y, loc_y, ret, atReadY, unread, fresh, lastIrq, raw,
                   tapVars, boardVars, callVars>>

\* touches(), line 213: y = self._y
Touches_L213 ==
    /\ pc = "L213"
    /\ loc_y' = _y
    /\ atReadY' = <<_x, _y>>
    /\ pc' = "L215"
    /\ UNCHANGED <<_x, _y, loc_x, ret, pre, irqInCall, unread, fresh,
                   newestAtCall, lastIrq, raw, ret_prev, pre_prev, quiet2,
                   tapVars, boardVars, callVars>>

\* Variant of line 215 that leaves the stored x in place.
Touches_L215_keep ==
    /\ pc = "L215"
    /\ _x' = _x
    /\ pc' = "L216"
    /\ UNCHANGED <<_y, loc_x, loc_y, ret, pre, atReadY, irqInCall, unread,
                   fresh, newestAtCall, lastIrq, raw, ret_prev, pre_prev,
                   quiet2,
                   tapVars, boardVars, callVars>>

\* touches(), line 215: self._x = 0
Touches_L215 ==
    /\ pc = "L215"
    /\ _x' = 0
    /\ pc' = "L216"
    /\ UNCHANGED <<_y, loc_x, loc_y, ret, pre, atReadY, irqInCall, unread,
                   fresh, newestAtCall, lastIrq, raw, ret_prev, pre_prev,
                   quiet2,
                   tapVars, boardVars, callVars>>

\* touches(), line 216: self._y = 0
Touches_L216 ==
    /\ pc = "L216"
    /\ _y' = 0
    /\ pc' = "L218"
    /\ UNCHANGED <<_x, loc_x, loc_y, ret, pre, atReadY, irqInCall, unread,
                   fresh, newestAtCall, lastIrq, raw, ret_prev, pre_prev,
                   quiet2,
                   tapVars, boardVars, callVars>>

\* touches(), line 218: return x, y
Touches_L218 ==
    /\ pc = "L218"
    /\ ret' = <<loc_x, loc_y>>
    /\ pc' = "idle"
    /\ unread' = IF unread = <<loc_x, loc_y>> THEN NoSample ELSE unread
    /\ fresh' = NoSample
    /\ UNCHANGED <<_x, _y, loc_x, loc_y, pre, atReadY, irqInCall,
                   newestAtCall, lastIrq, raw, ret_prev, pre_prev, quiet2,
                   tapVars, boardVars, callVars>>

Touches == Touches_L212 \/ Touches_L213 \/ Touches_L215 \/ Touches_L216
              \/ Touches_L218

\* ------------------------------------------------------------------------
\* Double-tap classifier
\* ------------------------------------------------------------------------
TapPoints == ((0..MaxTap) \X (0..MaxTap)) \cup {<<100, 100>>, <<102, 98>>}
Margins == (0..MaxMargin) \cup {DefaultErrorMargin}

\* Variant of the hit test with a strict upper comparison on x.
DoubleTapHit_strict(last, x, y, error_margin) ==
    /\ last[1] - error_margin <= x /\ last[1] + error_margin > x
    /\ last[2] - error_margin <= y /\ last[2] + error_margin >= y

\* The two nested conditions of double_tap (lines 229-230).
DoubleTapHit(last, x, y, error_margin) ==
    /\ last[1] - error_margin <= x /\ last[1] + error_margin >= x
    /\ last[2] - error_margin <= y /\ last[2] + error_margin >= y

\* double_tap(x, y, error_margin)
DoubleTap ==
    /\ pc = "idle"
    /\ Len(taps) < MaxTaps
    /\ \E p \in TapPoints, error_margin \in Margins :
          LET hit == DoubleTapHit(last_tap, p[1], p[2], error_margin) IN
          /\ last_tap' = IF hit THEN <<-1, -1>> ELSE <<p[1], p[2]>>
          /\ taps' = Append(taps, [before |-> last_tap, x |-> p[1],
                                   y |-> p[2], m |-> error_margin,
                                   result |-> hit])
    /\ UNCHANGED <<touchVars, boardVars, callVars>>

\* ------------------------------------------------------------------------
\* RGB indicator, backlight, speaker
\* ------------------------------------------------------------------------
Min(a, b) == IF a <= b THEN a ELSE b
Max(a, b) == IF a >= b THEN a ELSE b

RgbArgs == {-1, 0, 1, 128, 255, 300}
BacklightArgs == {-1, 0, 1, 2}
FreqArgs == {220, 440}
GainArgs == {0, 256, 1024}
SpeakerGainArgs == {-1, 512, 1024}

\* Variant whose output span is measured from in_min.
_remap_in(value, in_min, in_max, out_min, out_max) ==
    LET in_span == in_max - in_min
        out_span == out_max - in_min
    IN  <<out_min * in_span + (value - in_min) * out_span, in_span>>

\* _remap: out_min + (value - in_min) * (out_span / in_span), kept as the
\* exact quotient <<numerator, denominator>> of the real-valued result.
_remap(value, in_min, in_max, out_min, out_max) ==
    LET in_span == in_max - in_min
        out_span == out_max - out_min
    IN  <<out_min * in_span + (value - in_min) * out_span, in_span>>

\* int(min(max(q, lo), hi)) for a quotient q = <<n, d>> with d > 0 and
\* 0 <= lo: clamp, then truncate.
IntClamp(q, lo, hi) ==
    IF q[1] <= lo * q[2] THEN lo
    ELSE IF q[1] >= hi * q[2] THEN hi
    ELSE q[1] \div q[2]

\* Variant that drives the line high for a lit channel.
RgbBinary_high(c) == IF Min(Max(c, 0), 1) = 0 THEN 0 ELSE 1

\* Value written to one channel by rgb() in binary mode (lines 256-258).
RgbBinary(c) == IF Min(Max(c, 0), 1) = 0 THEN 1 ELSE 0

\* Variant that truncates the remapped value without clamping it.
RgbDuty_noclamp(c) ==
    LET q == _remap(c, 0, MaxIntensity, MaxDuty, 0)
    IN  IF q[1] >= 0 THEN q[1] \div q[2] ELSE -((-q[1]) \div q[2])

\* Duty written to one channel by rgb() in intensity mode (lines 260-262).
RgbDuty(c) == IntClamp(_remap(c, 0, MaxIntensity, MaxDuty, 0), 0, MaxDuty)

RgbChannel(c) == IF rgb_pmw = FALSE THEN RgbBinary(c) ELSE RgbDuty(c)

Callable == pc = "idle" /\ shut = "no"

\* State change of rgb((r, g, b)).
RgbCall(r, g, b) ==
    /\ RGBr' = RgbChannel(r)
    /\ RGBg' = RgbChannel(g)
    /\ RGBb' = RgbChannel(b)

\* rgb(color), with the argument kept.
RgbLogged ==
    /\ Callable
    /\ \E r \in RgbArgs, g \in RgbArgs, b \in RgbArgs :
          /\ RgbCall(r, g, b)
          /\ color' = <<r, g, b>>
    /\ UNCHANGED <<touchVars, tapVars, sd_last, remap_in, remap_out,
                   configVars, tft_bl, speakerVars, sdVars, shutVars>>

\* A direct call of _remap with in_max # in_min, arguments and result kept.
Remap ==
    /\ Callable
    /\ \E value \in 0..MaxRemap, in_min \in 0..MaxRemap,
          in_max \in 0..MaxRemap, out_min \in 0..MaxRemap,
          out_max \in 0..MaxRemap :
          /\ in_max # in_min
          /\ remap_in' = <<value, in_min, in_max, out_min, out_max>>
          /\ remap_out' = _remap(value, in_min, in_max, out_min, out_max)
    /\ UNCHANGED <<touchVars, tapVars, color, sd_last, boardVars>>

\* rgb(color)
Rgb ==
    /\ Callable
    /\ \E r \in RgbArgs, g \in RgbArgs, b \in RgbArgs : RgbCall(r, g, b)
    /\ UNCHANGED <<touchVars, tapVars, callVars, configVars, tft_bl,
                   speakerVars, sdVars, shutVars>>

\* backlight(val)
Backlight ==
    /\ Callable
    /\ \E val \in BacklightArgs : tft_bl' = Min(Max(val, 0), 1)
    /\ UNCHANGED <<touchVars, tapVars, callVars, configVars, rgbVars,
                   speakerVars, sdVars, shutVars>>

\* play_tone(freq, duration, gain), lines 317-320: program the tone, then
\* block in sleep_ms.
PlayTone_L317 ==
    /\ Callable
    /\ \E freq \in FreqArgs, gain \in GainArgs :
          /\ speaker_freq' = freq
          /\ speaker_duty' = IF gain = 0 THEN speaker_gain ELSE gain
          /\ tone_arg' = gain
    /\ pc' = "L322"
    /\ UNCHANGED <<touchData, tapVars, callVars, configVars, rgbVars, tft_bl,
                   speaker_live, sdVars, shutVars>>

\* Variant of line 322 that returns without silencing the output.
PlayTone_L322_keep ==
    /\ pc = "L322"
    /\ tone_arg' = 0
    /\ pc' = "idle"
    /\ UNCHANGED <<touchData, tapVars, callVars, configVars, rgbVars, tft_bl,
                   speaker_freq, speaker_duty, speaker_live, sdVars,
                   shutVars>>

\* play_tone, line 322: the sleep is over, duty back to 0.
PlayTone_L322 ==
    /\ pc = "L322"
    /\ speaker_duty' = 0
    /\ tone_arg' = 0
    /\ pc' = "idle"
    /\ UNCHANGED <<touchData, tapVars, callVars, configVars, rgbVars, tft_bl,
                   speaker_freq, speaker_live, sdVars, shutVars>>

PlayTone == PlayTone_L317 \/ PlayTone_L322

\* ------------------------------------------------------------------------
\* Storage
\* ------------------------------------------------------------------------
\* Variant that records the mount before os.mount has been called.
MountSdResult_eager(ready, mounted, probeOk, mountOk) ==
    IF ready = FALSE /\ ~probeOk THEN <<ready, mounted>>
    ELSE <<TRUE, TRUE>>

\* mount_sd(): <<_sd_ready, _sd_mounted>> after the call; probeOk says that
\* SDCard(slot=2) does not raise, mountOk that os.mount does not raise.
MountSdResult(ready, mounted, probeOk, mountOk) ==
    IF ready = FALSE /\ ~probeOk THEN <<ready, mounted>>
    ELSE IF ~mountOk THEN <<TRUE, mounted>>
    ELSE <<TRUE, TRUE>>

\* Variant that clears the flag before os.unmount has been called.
UnmountSdResult_early(mounted, ok) == FALSE

\* unmount_sd(): _sd_mounted after the call; ok says that os.unmount does
\* not raise.
UnmountSdResult(mounted, ok) ==
    IF mounted = TRUE /\ ok THEN FALSE ELSE mounted

\* Low-level calls made by mount_sd(): SDCard(slot=2) only when the card
\* has not been probed yet, os.mount only when _sd_ready holds afterwards.
MountSdTries(ready, probeOk) ==
    [probe |-> (ready = FALSE), mount |-> (ready = TRUE \/ probeOk)]

\* Low-level call made by unmount_sd(): os.unmount only when mounted.
UnmountSdTries(mounted) == (mounted = TRUE)

\* The try body of mount_sd() raises when a low-level call it makes does.
MountSdBodyRaises(ready, probeOk, mountOk) ==
    LET t == MountSdTries(ready, probeOk)
    IN  (t.probe /\ ~probeOk) \/ (t.mount /\ ~mountOk)

\* The try body of unmount_sd() raises when os.unmount does.
UnmountSdBodyRaises(mounted, ok) == UnmountSdTries(mounted) /\ ~ok

\* Both bodies sit in "try: ... except:" (lines 340 and 352): the handler
\* names no exception class, so it catches whatever the body raises.
BareExcept == TRUE

\* An exception leaves the call when the body raises and no handler
\* catches it.
Escapes(bodyRaises) == bodyRaises /\ ~BareExcept

\* State change of mount_sd().
MountSdCall(probeOk, mountOk) ==
    LET r == MountSdResult(_sd_ready, _sd_mounted, probeOk, mountOk) IN
    /\ _sd_ready' = r[1]
    /\ _sd_mounted' = r[2]
    /\ fs_mounted' = IF MountSdTries(_sd_ready, probeOk).mount /\ mountOk
                     THEN TRUE ELSE fs_mounted

\* Variant in which a successful unmount also forgets the probed card.
UnmountSdCall_reset(ok) ==
    /\ _sd_mounted' = UnmountSdResult(_sd_mounted, ok)
    /\ fs_mounted' = IF UnmountSdTries(_sd_mounted) /\ ok
                     THEN FALSE ELSE fs_mounted
    /\ _sd_ready' = IF UnmountSdTries(_sd_mounted) /\ ok
                    THEN FALSE ELSE _sd_ready

\* State change of unmount_sd().
UnmountSdCall(ok) ==
    /\ _sd_mounted' = UnmountSdResult(_sd_mounted, ok)
    /\ fs_mounted' = IF UnmountSdTries(_sd_mounted) /\ ok
                     THEN FALSE ELSE fs_mounted
    /\ UNCHANGED _sd_ready

\* Record of a mount_sd() call.  The card is absent when neither low-level
\* call can succeed; the run counts such calls from construction on.
MountSdLog(probeOk, mountOk) ==
    LET t == MountSdTries(_sd_ready, probeOk)
        absent == ~probeOk /\ ~mountOk
        first == sd_last.op = "none"
    IN  [op |-> "mount", ready |-> _sd_ready, mounted |-> _sd_mounted,
         probed |-> t.probe, probeOk |-> probeOk,
         tried |-> t.mount, lowOk |-> mountOk,
         raised |-> Escapes(MountSdBodyRaises(_sd_ready, probeOk, mountOk)),
         absentRun |-> IF absent /\ (first \/ sd_last.absentRun > 0)
                       THEN Min(sd_last.absentRun + 1, MaxAbsentRun)
                       ELSE 0]

\* Record of an unmount_sd() call.
UnmountSdLog(ok) ==
    [op |-> "unmount", ready |-> _sd_ready, mounted |-> _sd_mounted,
     probed |-> FALSE, probeOk |-> FALSE,
     tried |-> UnmountSdTries(_sd_mounted), lowOk |-> ok,
     raised |-> Escapes(UnmountSdBodyRaises(_sd_mounted, ok)),
     absentRun |-> 0]

\* mount_sd()
MountSd ==
    /\ Callable
    /\ \E probeOk \in BOOLEAN, mountOk \in BOOLEAN :
          MountSdCall(probeOk, mountOk)
    /\ UNCHANGED <<touchVars, tapVars, callVars, configVars, rgbVars, tft_bl,
                   speakerVars, shutVars>>

\* unmount_sd()
UnmountSd ==
    /\ Callable
    /\ \E ok \in BOOLEAN : UnmountSdCall(ok)
    /\ UNCHANGED <<touchVars, tapVars, callVars, configVars, rgbVars, tft_bl,
                   speakerVars, shutVars>>

\* mount_sd(), with its call record kept.
MountSdLogged ==
    /\ Callable
    /\ \E probeOk \in BOOLEAN, mountOk \in BOOLEAN :
          /\ MountSdCall(probeOk, mountOk)
          /\ sd_last' = MountSdLog(probeOk, mountOk)
    /\ UNCHANGED <<touchVars, tapVars, color, remap_in, remap_out,
                   configVars, rgbVars, tft_bl, speakerVars, shutVars>>

\* unmount_sd(), with its call record kept.
UnmountSdLogged ==
    /\ Callable
    /\ \E ok \in BOOLEAN :
          /\ UnmountSdCall(ok)
          /\ sd_last' = UnmountSdLog(ok)
    /\ UNCHANGED <<touchVars, tapVars, color, remap_in, remap_out,
                   configVars, rgbVars, tft_bl, speakerVars, shutVars>>

\* ------------------------------------------------------------------------
\* Shutdown
\* ------------------------------------------------------------------------
\* Variant of the statement order with the backlight switched off right
\* after the dwell, before storage, audio and RGB are torn down.
ShutdownNext_early(line) ==
    CASE line = "L362" -> "L365"
      [] line = "L365" -> "L374"
      [] line = "L374" -> "L366"
      [] line = "L366" -> "L367"
      [] line = "L367" -> "L368"
      [] line = "L368" -> "L375"
      [] line = "L375" -> "L376"

\* Statement order of shutdown(): the line executed after each line.
ShutdownNext(line) ==
    CASE line = "L362" -> "L365"
      [] line = "L365" -> "L366"
      [] line = "L366" -> "L367"
      [] line = "L367" -> "L368"
      [] line = "L368" -> "L374"
      [] line = "L374" -> "L375"
      [] line = "L375" -> "L376"

\* An exception leaves shutdown(): no later statement runs.
Raise(step) ==
    /\ failed' = failed \cup {step}
    /\ shut' = "raised"
    /\ pc' = "idle"

Step(line, op) ==
    /\ ops' = Append(ops, op)
    /\ pc' = ShutdownNext(line)

\* lines 362-364: draw the "Shutting Down" notice.  shutdown() tests no flag
\* on entry, so a caller that survived one shutdown() (the loop of
\* examples/wifi_advance_demo.py, lines 37-59) can enter it again.
Shutdown_L362 ==
    /\ pc = "idle"
    /\ shut \in {"no", "done"}
    /\ calls < MaxShutdowns
    /\ calls' = calls + 1
    /\ \E ok \in BOOLEAN :
          IF ok
          THEN /\ display' = "notice"
               /\ ops' = <<"notice">>
               /\ failed' = {}
               /\ shut' = "running"
               /\ pc' = ShutdownNext("L362")
          ELSE /\ ops' = <<>>
               /\ failed' = {"notice"}
               /\ shut' = "raised"
               /\ pc' = "idle"
               /\ UNCHANGED display
    /\ UNCHANGED <<touchData, tapVars, callVars, configVars, rgbVars, tft_bl,
                   speakerVars, sdVars>>

\* line 365: time.sleep(2.0)
Shutdown_L365 ==
    /\ pc = "L365"
    /\ pc' = ShutdownNext("L365")
    /\ UNCHANGED <<touchData, tapVars, callVars, configVars, rgbVars, tft_bl,
                   speakerVars, sdVars, shutVars>>

\* line 366: self.unmount_sd(); a failing os.unmount is caught inside.
Shutdown_L366 ==
    /\ pc = "L366"
    /\ \E ok \in BOOLEAN :
          /\ UnmountSdCall(ok)
          /\ sd_last' = UnmountSdLog(ok)
          /\ failed' = IF _sd_mounted = TRUE /\ ~ok
                       THEN failed \cup {"unmount_sd"} ELSE failed
    /\ Step("L366", "unmount_sd")
    /\ UNCHANGED <<touchData, tapVars, color, remap_in, remap_out,
                   configVars, rgbVars, tft_bl, speakerVars, display, shut,
                   calls>>

\* line 367: self.speaker_pwm.deinit()
Shutdown_L367 ==
    /\ pc = "L367"
    /\ \E ok \in BOOLEAN :
          IF ok
          THEN /\ speaker_live' = FALSE
               /\ Step("L367", "audio_release")
               /\ UNCHANGED <<failed, shut>>
          ELSE /\ Raise("audio_release")
               /\ UNCHANGED <<speaker_live, ops>>
    /\ UNCHANGED <<touchData, tapVars, callVars, configVars, rgbVars, tft_bl,
                   speaker_freq, speaker_duty, tone_arg, sdVars, display,
                   calls>>

\* lines 368-373: RGB off.  Binary mode writes 1 to the three pins; intensity
\* mode calls self.rgb(0,0,0), which raises TypeError unless the number of
\* arguments passed matches the parameters of rgb.
Shutdown_L368 ==
    /\ pc = "L368"
    /\ IF rgb_pmw = FALSE
       THEN /\ RGBr' = 1 /\ RGBg' = 1 /\ RGBb' = 1
            /\ Step("L368", "rgb_off")
            /\ UNCHANGED <<failed, shut>>
       ELSE IF ShutdownRgbArgs = RgbParams
            THEN /\ RGBr' = RgbChannel(0)
                 /\ RGBg' = RgbChannel(0)
                 /\ RGBb' = RgbChannel(0)
                 /\ Step("L368", "rgb_off")
                 /\ UNCHANGED <<failed, shut>>
            ELSE /\ Raise("rgb_off")
                 /\ UNCHANGED <<rgbVars, ops>>
    /\ UNCHANGED <<touchData, tapVars, callVars, configVars, tft_bl,
                   speakerVars, sdVars, display, calls>>

\* line 374: self.tft_bl.value(0)
Shutdown_L374 ==
    /\ pc = "L374"
    /\ tft_bl' = 0
    /\ Step("L374", "backlight_off")
    /\ UNCHANGED <<touchData, tapVars, callVars, configVars, rgbVars,
                   speakerVars, sdVars, display, shut, failed, calls>>

\* line 375: self.display.cleanup()
Shutdown_L375 ==
    /\ pc = "L375"
    /\ \E ok \in BOOLEAN :
          IF ok
          THEN /\ display' = "cleaned"
               /\ Step("L375", "display_cleanup")
               /\ UNCHANGED <<failed, shut>>
          ELSE /\ Raise("display_cleanup")
               /\ UNCHANGED <<display, ops>>
    /\ UNCHANGED <<touchData, tapVars, callVars, configVars, rgbVars, tft_bl,
                   speakerVars, sdVars, calls>>

\* line 376: print the goodbye banner and return.
Shutdown_L376 ==
    /\ pc = "L376"
    /\ shut' = "done"
    /\ pc' = "idle"
    /\ UNCHANGED <<touchData, tapVars, callVars, configVars, rgbVars, tft_bl,
                   speakerVars, sdVars, display, ops, failed, calls>>

Shutdown == Shutdown_L362 \/ Shutdown_L365 \/ Shutdown_L366 \/ Shutdown_L367
               \/ Shutdown_L368 \/ Shutdown_L374 \/ Shutdown_L375
               \/ Shutdown_L376

\* State after CYD(rgb_pmw, speaker_gain) has been constructed.
Init ==
    /\ _x = 0
    /\ _y = 0
    /\ last_tap = NoTap
    /\ taps = <<>>
    /\ pc = "idle"
    /\ loc_x = 0
    /\ loc_y = 0
    /\ ret = NoSample
    /\ pre = Sentinel
    /\ atReadY = Sentinel
    /\ irqInCall = FALSE
    /\ unread = NoSample
    /\ fresh = NoSample
    /\ newestAtCall = NoSample
    /\ lastIrq = NoSample
    /\ ret_prev = NoSample
    /\ pre_prev = Sentinel
    /\ quiet2 = FALSE
    /\ rgb_pmw \in BOOLEAN
    /\ RGBr = (IF rgb_pmw = FALSE THEN 1 ELSE MaxDuty)
    /\ RGBg = (IF rgb_pmw = FALSE THEN 1 ELSE MaxDuty)
    /\ RGBb = (IF rgb_pmw = FALSE THEN 1 ELSE MaxDuty)
    /\ tft_bl = 1
    /\ speaker_gain \in {Min(Max(g, 0), MaxDuty) : g \in SpeakerGainArgs}
    /\ speaker_freq = 440
    /\ speaker_duty = 0
    /\ speaker_live = TRUE
    /\ _sd_ready = FALSE
    /\ _sd_mounted = FALSE
    /\ display = "ready"
    /\ shut = "no"
    /\ ops = <<>>
    /\ failed = {}
    /\ calls = 0
    /\ raw = NoSample
    /\ pins = ConstructedPins
    /\ buses = ConstructedBuses
    /\ tone_arg = 0
    /\ fs_mounted = FALSE
    /\ color = NoSample
    /\ sd_last = NoCall
    /\ remap_in = NoSample
    /\ remap_out = NoSample

\* State after CYD() has been constructed with its default arguments
\* (rgb_pmw=False, speaker_gain=512), as the example programs do.
InitDefault == Init /\ rgb_pmw = FALSE /\ speaker_gain = 512

\* The touch pipeline: one polling thread and the touch interrupt.
NextTouch == TouchHandler \/ Touches

SpecTouch == InitDefault /\ [][NextTouch]_vars

\* The board peripherals driven by an arbitrary caller up to shutdown().
NextBoard == Rgb \/ Backlight \/ PlayTone \/ MountSd \/ UnmountSd \/ Shutdown

SpecBoard == Init /\ [][NextBoard]_vars

\* The double-tap classifier driven by an arbitrary caller.
NextTap == DoubleTap

SpecTap == InitDefault /\ [][NextTap]_vars

\* The storage manager driven by an arbitrary caller up to shutdown(), with
\* the record of each storage call kept.
NextStorage == MountSdLogged \/ UnmountSdLogged \/ Shutdown

SpecStorage == Init /\ [][NextStorage]_vars

\* The RGB indicator driven by an arbitrary caller, with the argument of
\* each call kept.
NextRgb == RgbLogged

SpecRgb == Init /\ [][NextRgb]_vars

\* _remap called with arbitrary small arguments.
NextRemap == Remap

SpecRemap == Init /\ [][NextRemap]_vars

\* ------------------------------------------------------------------------
\* Properties of the touch pipeline
\* ------------------------------------------------------------------------
Store == <<_x, _y>>
Returned == pc = "idle" /\ ret # NoSample

\* C1: every pair returned by touches() is, in full, either the pair stored
\* when the call began (the pre-interrupt sample) or the pair the interrupt
\* handler had put in the store when the call read it (the post-interrupt
\* sample); it is never x of one sample with y of another.
C1_NoMixedPair == Returned => (ret = pre \/ ret = atReadY)

\* C2: read-then-clear is atomic relative to the handler: once touches() has
\* returned, a handler sample that no call has returned is still in the
\* store (it was not erased by the reset to (0,0)).
C2_NoLostSample == (pc = "idle" /\ unread # NoSample) => Store = unread

\* C3: touches() is consuming: a call that no interrupt preempts returns the
\* stored pair and leaves the store at (0,0); two consecutive calls with no
\* interrupt between or during them return the sample, then (0,0).
C3_Consuming ==
    (Returned /\ ~irqInCall) =>
        /\ ret = pre
        /\ (fresh = NoSample => Store = Sentinel)
        /\ (quiet2 /\ ret_prev # NoSample) =>
               (ret_prev = pre_prev /\ pre = Sentinel /\ ret = Sentinel)

\* Two quiet consecutive calls, the first of which returned a real sample.
C3_Witness ==
    /\ Returned /\ ~irqInCall /\ fresh = NoSample /\ quiet2
    /\ ret_prev # NoSample /\ ret_prev # Sentinel /\ ret_prev[1] # 0
    /\ ret = Sentinel

\* C4: single slot, newest wins: when one or more interrupts fired between
\* the previous touches() return (or construction) and the start of a call,
\* that call returns exactly the corrected pair of the most recent interrupt
\* (the newest one before the call, or a still newer one), never a pair made
\* of an older sample.  Stated for samples other than (0,0).
C4_NewestWins ==
    (Returned /\ newestAtCall # NoSample /\ newestAtCall # Sentinel
              /\ fresh = NoSample) =>
        (ret = newestAtCall \/ ret = lastIrq)

\* ------------------------------------------------------------------------
\* Properties of the double-tap classifier
\* ------------------------------------------------------------------------
Abs(n) == IF n < 0 THEN -n ELSE n

\* last_tap as left by the i-th logged call
TapAfter(i) == IF i < Len(taps) THEN taps[i + 1].before ELSE last_tap

TapInput(i) == <<taps[i].x, taps[i].y, taps[i].m>>

Scenario == <<(<<100, 100, 5>>), (<<102, 98, 5>>), (<<100, 100, 5>>)>>
ScenarioResult == <<FALSE, TRUE, FALSE>>
IsScenario(n) == Len(taps) >= n /\ \A i \in 1..n : TapInput(i) = Scenario[i]

\* C5: double_tap returns true and resets last_tap to (-1,-1) exactly when
\* both |x - last_tap.x| <= margin and |y - last_tap.y| <= margin; otherwise
\* it stores (x, y) and returns false.  From construction, taps (100,100),
\* (102,98), (100,100) with margin 5 give false, true, false.
C5_DoubleTap ==
    /\ \A i \in 1..Len(taps) :
          LET t == taps[i]
              near == /\ Abs(t.x - t.before[1]) <= t.m
                      /\ Abs(t.y - t.before[2]) <= t.m
          IN  /\ t.result <=> near
              /\ near => TapAfter(i) = NoTap
              /\ ~near => TapAfter(i) = <<t.x, t.y>>
    /\ \A n \in 1..3 : IsScenario(n) => taps[n].result = ScenarioResult[n]

\* The documented three-tap scenario has been played in full.
C5_Witness == IsScenario(3) /\ taps[2].result /\ last_tap = <<100, 100>>

\* C6: a call made while last_tap is the sentinel (-1,-1) never reports a
\* double-tap, whatever the non-negative sample and margin.
C6_FirstTapNeverDouble ==
    \A i \in 1..Len(taps) :
        (taps[i].before = NoTap /\ taps[i].x >= 0 /\ taps[i].y >= 0
            /\ taps[i].m >= 0) => ~taps[i].result

\* C7: two calls in a row with the same sample and margin never give the
\* same result.
C7_NotIdempotent ==
    \A i \in 1..(Len(taps) - 1) :
        TapInput(i) = TapInput(i + 1) => taps[i].result # taps[i + 1].result
\* ------------------------------------------------------------------------
\* Properties of shutdown()
\* ------------------------------------------------------------------------
Has(op) == \E i \in 1..Len(ops) : ops[i] = op
Pos(op) == IF Has(op) THEN CHOOSE i \in 1..Len(ops) : ops[i] = op ELSE 0
\* If b has happened, a happened strictly before it.
Before(a, b) == Has(b) => (Has(a) /\ Pos(a) < Pos(b))
Ended == shut \in {"done", "raised"}
RgbIsOff ==
    LET off == IF rgb_pmw = FALSE THEN 1 ELSE MaxDuty
    IN  RGBr = off /\ RGBg = off /\ RGBb = off

\* C8 (as stated): display cleanup comes strictly after the storage unmount
\* attempt and the audio release, and the backlight is disabled only after
\* storage unmount, audio release, RGB off and display cleanup.
C8_BacklightLast ==
    /\ Before("unmount_sd", "display_cleanup")
    /\ Before("audio_release", "display_cleanup")
    /\ Before("unmount_sd", "backlight_off")
    /\ Before("audio_release", "backlight_off")
    /\ Before("rgb_off", "backlight_off")
    /\ Before("display_cleanup", "backlight_off")

\* C8 (amended): display cleanup comes strictly after the storage unmount
\* attempt and the audio release; the backlight is disabled only after
\* storage unmount, audio release and RGB off; display cleanup is the last
\* teardown step and follows the backlight disable.
C8_ShutdownOrder ==
    /\ Before("unmount_sd", "display_cleanup")
    /\ Before("audio_release", "display_cleanup")
    /\ Before("unmount_sd", "backlight_off")
    /\ Before("audio_release", "backlight_off")
    /\ Before("rgb_off", "backlight_off")
    /\ Before("backlight_off", "display_cleanup")

\* A shutdown() that ran to its end on a board whose card was mounted.
C8_Witness ==
    /\ shut = "done"
    /\ ops = <<"notice", "unmount_sd", "audio_release", "rgb_off",
               "backlight_off", "display_cleanup">>
    /\ _sd_ready = TRUE /\ _sd_mounted = FALSE

\* C9: when no hardware call of shutdown() fails, shutdown() ends with the
\* RGB indicator off in either mode (pins at 1, or duties at 1023), the
\* backlight disabled and the display released.
C9_RgbForcedOff ==
    (Ended /\ failed \cap {"notice", "audio_release", "display_cleanup"} = {})
        => (RgbIsOff /\ tft_bl = 0 /\ display = "cleaned")

\* C10: when at most one of the display notice, the storage unmount, the
\* audio release and the RGB off step fails, shutdown() still ends with the
\* backlight disabled and the display released.
C10_BestEffort ==
    (Ended /\ Cardinality(failed) <= 1
           /\ failed \subseteq {"notice", "unmount_sd", "audio_release",
                                 "rgb_off"})
        => (tft_bl = 0 /\ display = "cleaned")

\* C11: a second shutdown() on a board that was already shut down is a
\* no-op: it performs no display, storage, audio, RGB or backlight operation
\* and raises nothing.
C11_SecondShutdownNoOp == calls >= 2 => (ops = <<>> /\ failed = {})

\* C14: every pin the constructor configures is configured by exactly one
\* subsystem, and each serial bus is claimed by exactly one of display and
\* touch.
C14_SingleOwner ==
    /\ \A p \in DOMAIN pins : Cardinality(pins[p]) = 1
    /\ \A b \in DOMAIN buses :
          Cardinality(buses[b]) = 1 /\ buses[b] \subseteq {"display", "touch"}

\* C18: while play_tone blocks, the speaker duty is the gain argument, or
\* the configured speaker_gain when the argument is 0; whenever no play_tone
\* is in progress and the speaker has not been released, the duty is 0.
C18_ToneDuty ==
    /\ pc = "L322" =>
          speaker_duty = (IF tone_arg # 0 THEN tone_arg ELSE speaker_gain)
    /\ (pc # "L322" /\ speaker_live) => speaker_duty = 0

\* A play_tone with gain 0 is blocking at the configured default gain.
C18_Witness ==
    /\ pc = "L322" /\ tone_arg = 0
    /\ speaker_gain = 512 /\ speaker_duty = 512

\* C19: the orientation correction is an involution on the panel: applied
\* to the pair the handler stored it gives back the raw pair, and the stored
\* pair lies within the panel bounds.
C19_Involution ==
    lastIrq # NoSample =>
        /\ Correct(lastIrq[1], lastIrq[2]) = raw
        /\ lastIrq[1] \in 0..(Width - 1)
        /\ lastIrq[2] \in 0..(Height - 1)

\* The handler has corrected a raw pair whose x the mirror moves.
C19_Witness ==
    lastIrq # NoSample /\ raw = <<0, 1>> /\ lastIrq = <<Width - 1, 1>>

\* C20: touches() returns the sentinel (0,0) only when no touch interrupt
\* occurred between the previous touches() return (or construction) and
\* this call.
C20_SentinelMeansNoTouch ==
    (Returned /\ ret = Sentinel /\ ~irqInCall) => newestAtCall = NoSample

\* C12: mount_sd() probes the card only when ready is false; a failed probe
\* leaves ready false and mounted unchanged and attempts no mount; after a
\* successful probe, or when ready was already true, the mount is attempted,
\* and a failed mount leaves mounted unchanged; no exception leaves the
\* call; as long as the card has been absent, every mount_sd() leaves
\* (ready, mounted) = (false, false).
C12_MountSd ==
    sd_last.op = "mount" =>
        /\ sd_last.probed => sd_last.ready = FALSE
        /\ (sd_last.probed /\ ~sd_last.probeOk) =>
              /\ _sd_ready = FALSE
              /\ _sd_mounted = sd_last.mounted
              /\ ~sd_last.tried
        /\ ((sd_last.probed /\ sd_last.probeOk) \/ sd_last.ready = TRUE) =>
              sd_last.tried
        /\ (sd_last.tried /\ ~sd_last.lowOk) =>
              _sd_mounted = sd_last.mounted
        /\ ~sd_last.raised
        /\ sd_last.absentRun > 0 =>
              (_sd_ready = FALSE /\ _sd_mounted = FALSE)

\* A second mount_sd() in a row without a card has failed at the probe.
C12_Witness ==
    /\ sd_last.op = "mount" /\ sd_last.absentRun = 2
    /\ sd_last.probed /\ ~sd_last.tried
    /\ _sd_ready = FALSE /\ _sd_mounted = FALSE

\* C13: unmount_sd() attempts the unmount only when mounted is true and
\* changes nothing when mounted is false; a successful unmount clears
\* mounted, a failed one leaves it true, and no exception leaves the call;
\* in every state mounted tells whether the last low-level mount or unmount
\* that succeeded was a mount.
C13_UnmountSd ==
    /\ _sd_mounted = fs_mounted
    /\ sd_last.op = "unmount" =>
          /\ sd_last.tried => sd_last.mounted = TRUE
          /\ sd_last.mounted = FALSE =>
                (_sd_mounted = FALSE /\ _sd_ready = sd_last.ready)
          /\ (sd_last.tried /\ sd_last.lowOk) => _sd_mounted = FALSE
          /\ (sd_last.tried /\ ~sd_last.lowOk) => _sd_mounted = TRUE
          /\ ~sd_last.raised

\* An unmount_sd() on a mounted card has failed and left the card mounted.
C13_Witness ==
    /\ sd_last.op = "unmount" /\ sd_last.tried /\ ~sd_last.lowOk
    /\ _sd_mounted = TRUE /\ fs_mounted = TRUE /\ shut = "no"

\* Values written to the three channels by the last rgb call.
RgbOut == <<RGBr, RGBg, RGBb>>
RgbDone(mode) == color # NoSample /\ rgb_pmw = mode

\* C15 (as stated): in binary mode each channel's line is driven low (0)
\* for every nonzero input on that channel and high (1) for input 0.
C15_BinaryNonzeroLow ==
    RgbDone(FALSE) =>
        \A i \in 1..3 : RgbOut[i] = (IF color[i] # 0 THEN 0 ELSE 1)

\* C15 (amended): in binary mode each channel's line is driven low (0) for
\* every positive input on that channel and high (1) for every input that
\* is 0 or negative, whatever the other two inputs are.
C15_BinaryPositiveLow ==
    RgbDone(FALSE) =>
        \A i \in 1..3 : RgbOut[i] = (IF color[i] > 0 THEN 0 ELSE 1)

\* A binary-mode call with a negative, a zero and a positive input.
C15_Witness == RgbDone(FALSE) /\ color = <<-1, 0, 1>> /\ RgbOut = <<1, 1, 0>>

\* The duty C16 describes: clamp the input to [0,255], map [0,255] linearly
\* onto [1023,0], clamp to [0,1023]; the written duty is its integer part.
ClaimedDuty(v) ==
    LET c == Min(Max(v, 0), MaxIntensity)
        d == (MaxDuty * (MaxIntensity - c)) \div MaxIntensity
    IN  Min(Max(d, 0), MaxDuty)

\* C16: in intensity mode the duty written for input v is the clamped,
\* remapped, clamped value: 1023 for 0, 0 for 255, the duty of 255 for any
\* input above 255, the duty of 0 for any input below 0, and always within
\* 0..1023.
C16_IntensityDuty ==
    RgbDone(TRUE) =>
        \A i \in 1..3 :
            /\ RgbOut[i] = ClaimedDuty(color[i])
            /\ color[i] = 0 => RgbOut[i] = MaxDuty
            /\ color[i] = MaxIntensity => RgbOut[i] = 0
            /\ color[i] > MaxIntensity => RgbOut[i] = RgbDuty(MaxIntensity)
            /\ color[i] < 0 => RgbOut[i] = RgbDuty(0)
            /\ RgbOut[i] \in 0..MaxDuty

\* An intensity-mode call with inputs below, inside and above 0..255.
C16_Witness ==
    RgbDone(TRUE) /\ color = <<-1, 128, 300>> /\ RgbOut = <<1023, 509, 0>>

\* Equality of two quotients <<n, d>> with d # 0.
QEq(p, q) == p[1] * q[2] = q[1] * p[2]
RemapDone == remap_in # NoSample
\* <<n, d>> for out_min + (value - in_min) * span / (in_max - in_min).
Interpolate(a, span) ==
    <<a[4] * (a[3] - a[2]) + (a[1] - a[2]) * span, a[3] - a[2]>>

\* C17 (as stated): for in_max # in_min, _remap returns
\* out_min + (value - in_min) * (out_max - in_min) / (in_max - in_min).
C17_RemapInMin ==
    RemapDone =>
        QEq(remap_out, Interpolate(remap_in, remap_in[5] - remap_in[2]))

\* C17 (amended): for in_max # in_min, _remap returns
\* out_min + (value - in_min) * (out_max - out_min) / (in_max - in_min);
\* it maps in_min to out_min and in_max to out_max.
C17_RemapOutMin ==
    RemapDone =>
        /\ QEq(remap_out,
               Interpolate(remap_in, remap_in[5] - remap_in[4]))
        /\ remap_in[1] = remap_in[2] => QEq(remap_out, <<remap_in[4], 1>>)
        /\ remap_in[1] = remap_in[3] => QEq(remap_out, <<remap_in[5], 1>>)

\* _remap has mapped in_max onto an out_max that differs from the value
\* the stated formula gives.
C17_Witness ==
    /\ remap_in = <<2, 0, 2, 1, 0>>
    /\ QEq(remap_out, <<0, 1>>)

\* C21: after construction (ready, mounted) = (false, false); in every
\* state reached by mount_sd() and unmount_sd() calls with arbitrary
\* low-level outcomes, mounted implies ready; and no step takes ready from
\* true back to false.
C21_StorageInvariant ==
    /\ (_sd_ready = FALSE /\ _sd_mounted = FALSE)
    /\ [](_sd_mounted = TRUE => _sd_ready = TRUE)
    /\ [][_sd_ready = TRUE => _sd_ready' = TRUE]_vars

\* A mount_sd() on a probed card has failed at os.mount: ready is kept.
C21_Witness ==
    /\ sd_last.op = "mount" /\ sd_last.ready = TRUE
    /\ sd_last.tried /\ ~sd_last.lowOk
    /\ _sd_ready = TRUE /\ _sd_mounted = FALSE

\* C22: every duty written to the speaker output lies within 0..1023, and
\* so does the configured speaker_gain.
C22_SpeakerDutyRange ==
    /\ speaker_duty \in 0..MaxDuty
    /\ speaker_gain \in 0..MaxDuty
====
